---------------------------- MODULE Spec2Model ----------------------------
(***************************************************************************)
(* Model of meter.go (package meter): the meeting-cost meter.               *)
(*                                                                         *)
(* Conventions                                                             *)
(*  - A time.Duration is an integer count of quanta; Second quanta make a  *)
(*    second.  The default of the -ticks flag (1, the smallest positive    *)
(*    Duration) is DefaultTicks.                                           *)
(*  - Money is counted in cents; a float64 amount is the exact rational    *)
(*    [num, den] (den > 0) of cents it stands for.                         *)
(*  - The input stream m.r is the immutable sequence of lines `data` and   *)
(*    a read position; a line is the sequence of its whitespace-separated  *)
(*    tokens (written canonically, without surplus blanks).                *)
(*  - The output stream m.w is the sequence `out` of the items written.    *)
(***************************************************************************)
EXTENDS Integers, Sequences, FiniteSets, TLC

\* ------------------------------------------------------------- scale
Second       == 2      \* time.Second, in quanta
DefaultTicks == 1      \* default of the -ticks flag
Hour         == 60 * 60 * Second

\* ------------------------------------------------------------ bounds
MaxInput     == 2      \* lines on the input stream of a session (Spec)
MaxRateLines == 4      \* lines on the input stream of a collection (SpecRate)
MaxClock     == 4      \* quanta of time a session is followed for
MaxEOF       == 2      \* failed reads of GetRate that are followed
MaxCostDur   == 4      \* the short durations Cost is applied to (SpecCost)

None == 0 - 1          \* "no exit code": the process has not called os.Exit

VARIABLES
    f,          \* m.f: [HourlyRate, MeetingDuration, Ticks]
    Finished,   \* m.Finished
    data,       \* the content of m.r, a sequence of lines (never changes)
    off,        \* lines of data the reader m.r has handed out
    tok,        \* tokens of line off+1 that fmt.Fscan has consumed
    out,        \* what has been written to m.w
    pc,         \* RunCLI's position
    rate,       \* GetRate's local `rate`
    scanPos,    \* lines GetRate's bufio.Scanner has returned
    eofReads,   \* failed scanner.Scan() calls of GetRate so far
    t2pc,       \* Timer2's position
    now,        \* Timer2's local `now`
    t,          \* Timer2's local `t`, the tick received
    uisPc,      \* UserInputStrategy's position
    userInput,  \* UserInputStrategy's local `userInput`
    ftsPc,      \* FixedTimeStrategy's position
    wakeAt,     \* when FixedTimeStrategy's time.Sleep ends
    tickerOn,   \* the ticker is created and not stopped
    stopped,    \* ticker.Stop() has been called
    nextTick,   \* when the ticker fires next
    tickC,      \* ticker.C, a channel of capacity 1
    sent,       \* sends on `done` that have completed
    clock,      \* quanta of time since time.NewTicker
    exitCode    \* the argument of os.Exit, None before

vars == <<f, Finished, data, off, tok, out, pc, rate, scanPos, eofReads,
          t2pc, now, t, uisPc, userInput, ftsPc, wakeAt, tickerOn, stopped,
          nextTick, tickC, sent, clock, exitCode>>

readerVars  == <<data, off, tok>>
rateVars    == <<rate, scanPos, eofReads>>
timer2Vars  == <<t2pc, now, t>>
uisVars     == <<uisPc, userInput>>
ftsVars     == <<ftsPc, wakeAt>>
tickerVars  == <<tickerOn, stopped, nextTick, tickC>>

\* ------------------------------------------------------ rational amounts
Rat(n)        == [num |-> n, den |-> 1]
RatDiv(q, n)  == [num |-> q.num, den |-> q.den * n]
RatMul(a, b)  == [num |-> a.num * b.num, den |-> a.den * b.den]
RECURSIVE GCD(_, _)
GCD(a, b)     == IF b = 0 THEN a ELSE GCD(b, a % b)
Abs(n)        == IF n < 0 THEN 0 - n ELSE n
RatNorm(q)    == LET g == GCD(Abs(q.num), q.den)
                 IN  [num |-> q.num \div g, den |-> q.den \div g]
RatEq(a, b)   == RatNorm(a) = RatNorm(b)

\* time.Duration.Seconds(): the duration as a (fractional) number of seconds
Seconds(d) == [num |-> d, den |-> Second]


\* Cost counting whole seconds only (the duration truncated to seconds)
CostWholeSeconds(hourlyRate, duration) ==
    LET durationSec   == Rat(duration \div Second)
        ratePerSecond == RatDiv(RatDiv(Rat(hourlyRate), 60), 60)
    IN  RatMul(ratePerSecond, durationSec)

\* func Cost(hourlyRate float64, duration time.Duration) float64
Cost(hourlyRate, duration) ==
    LET durationSec   == Seconds(duration)
        ratePerSecond == RatDiv(RatDiv(Rat(hourlyRate), 60), 60)
    IN  RatMul(ratePerSecond, durationSec)

\* fmt's %.2f of an amount of dollars: the nearest whole number of cents,
\* a tie going to the even one
Format2f(q) ==
    LET fl == q.num \div q.den
        r  == q.num - fl * q.den
    IN  IF 2 * r > q.den THEN fl + 1
        ELSE IF 2 * r < q.den THEN fl
        ELSE IF fl % 2 = 0 THEN fl ELSE fl + 1

\* ------------------------------------------------------------ output
Item(kind, cents, text) == [kind |-> kind, cents |-> cents, text |-> text]
Intro    == Item("intro", 0, <<>>)     \* line 65
Prompt   == Item("prompt", 0, <<>>)    \* line 68
Hint     == Item("hint", 0, <<>>)      \* line 69
Retry(l) == Item("retry", 0, l)        \* line 77
Banner   == Item("banner", 0, <<>>)    \* line 158
Newline  == Item("newline", 0, <<>>)   \* fmt.Fprintln(m.w)

\* func DisplayCost(cost float64, w io.Writer): the item it writes
DisplayCost(cost) == Item("cost", Format2f(cost), <<>>)

\* ------------------------------------------------------------- input
Sentinel == {"q", "Q"}

\* strconv.ParseFloat(line, 64) of a whole line: [ok, val], val in cents
ParseFloat(line) ==
    IF Len(line) = 1 /\ line[1] \in {"100", "50"}
    THEN [ok |-> TRUE, val |-> IF line[1] = "100" THEN 10000 ELSE 5000]
    ELSE [ok |-> FALSE, val |-> 0]

\* The position <<l, k>> (k tokens into line l+1) of the next token at or
\* after <<l, k>>, or <<Len(data), 0>> when the stream holds no more tokens.
RECURSIVE TokenAt(_, _, _)
TokenAt(d, l, k) ==
    IF l >= Len(d) THEN <<Len(d), 0>>
    ELSE IF k < Len(d[l + 1]) THEN <<l, k>>
    ELSE TokenAt(d, l + 1, 0)

\* The position after the token at <<l, k>>
AfterToken(d, l, k) ==
    IF k + 1 < Len(d[l + 1]) THEN <<l, k + 1>> ELSE <<l + 1, 0>>

SeqsUpTo(S, n) == UNION {[1..k -> S] : k \in 0..n}

\* ------------------------------------------------------------- flags
Rates       == {0, 10000}
Durations   == {0, 2 * Second, Hour}
TickSet     == {DefaultTicks, Second \div 2, Second, Second + 1, 2 * Second}
Lines       == {<<"q">>, <<"Q">>, <<"100">>, <<>>, <<"x", "q">>}
RateLines   == {<<"q">>, <<"Q">>, <<"100">>, <<"50">>, <<"foo">>, <<>>}

\* func NewMeeting(f Flags, opts ...MeetingOpt) *Meeting, with the reader
\* holding the lines d
NewMeeting(flags, d) ==
    /\ f = flags
    /\ Finished = FALSE
    /\ data = d
    /\ off = 0
    /\ tok = 0
    /\ out = <<>>
    /\ pc = "rate"
    /\ rate = 0
    /\ scanPos = 0
    /\ eofReads = 0
    /\ t2pc = "idle"
    /\ now = 0
    /\ t = 0
    /\ uisPc = "idle"
    /\ userInput = ""
    /\ ftsPc = "idle"
    /\ wakeAt = 0
    /\ tickerOn = FALSE
    /\ stopped = FALSE
    /\ nextTick = 0
    /\ tickC = <<>>
    /\ sent = 0
    /\ clock = 0
    /\ exitCode = None

Init ==
    \E flags \in [HourlyRate : Rates, MeetingDuration : Durations, Ticks : TickSet],
       d \in SeqsUpTo(Lines, MaxInput) :
        NewMeeting(flags, d)

\* os.Exit has not been called: the goroutines still run
Alive == exitCode = None


\* RunCLI_Rate calling GetRate whatever the rate given is
RunCLI_RateAlways ==
    /\ pc = "rate"
    /\ out' = Append(out, Intro)
    /\ rate' = 0
    /\ scanPos' = off
    /\ pc' = "scan"
    /\ UNCHANGED <<f, Finished, readerVars, eofReads, timer2Vars, uisVars,
                   ftsVars, tickerVars, sent, clock, exitCode>>

\* ---------------------------------------------------------- GetRate
\* RunCLI line 154 and GetRate lines 63-65: the test of the rate and, when it
\* is 0, the call of GetRate up to its loop
RunCLI_Rate ==
    /\ pc = "rate"
    /\ IF f.HourlyRate = 0
       THEN /\ out' = Append(out, Intro)
            /\ rate' = 0
            /\ scanPos' = off
            /\ pc' = "scan"
       ELSE /\ pc' = "mode"
            /\ UNCHANGED <<out, rate, scanPos>>
    /\ UNCHANGED <<f, Finished, readerVars, eofReads, timer2Vars, uisVars,
                   ftsVars, tickerVars, sent, clock, exitCode>>


\* GetRate_Line adding to the sum before the parse error is looked at, so
\* that an unparseable line counts (as 0) and is not answered
GetRate_LineNoRetry(line) ==
    IF Len(line) = 1 /\ line[1] \in Sentinel
    THEN /\ f' = [f EXCEPT !.HourlyRate = rate]
         /\ pc' = "mode"
         /\ out' = out \o <<Prompt, Hint>>
         /\ UNCHANGED rate
    ELSE /\ pc' = "scan"
         /\ UNCHANGED f
         /\ rate' = rate + ParseFloat(line).val
         /\ out' = out \o <<Prompt, Hint>>


\* GetRate_Line ending the collection on an empty line too
GetRate_LineEmptyEnds(line) ==
    IF line = <<>> \/ (Len(line) = 1 /\ line[1] \in Sentinel)
    THEN /\ f' = [f EXCEPT !.HourlyRate = rate]
         /\ pc' = "mode"
         /\ out' = out \o <<Prompt, Hint>>
         /\ UNCHANGED rate
    ELSE LET r == ParseFloat(line)
         IN  /\ pc' = "scan"
             /\ UNCHANGED f
             /\ IF r.ok
                THEN /\ rate' = rate + r.val
                     /\ out' = out \o <<Prompt, Hint>>
                ELSE /\ rate' = rate
                     /\ out' = out \o <<Prompt, Hint, Retry(line)>>

\* GetRate lines 72-81, applied to the line scanned: the sentinel ends the
\* collection (and RunCLI line 155 stores the sum), an unparseable line is
\* answered by the retry message, a number is added
GetRate_Line(line) ==
    IF Len(line) = 1 /\ line[1] \in Sentinel
    THEN /\ f' = [f EXCEPT !.HourlyRate = rate]
         /\ pc' = "mode"
         /\ out' = out \o <<Prompt, Hint>>
         /\ UNCHANGED rate
    ELSE LET r == ParseFloat(line)
         IN  /\ pc' = "scan"
             /\ UNCHANGED f
             /\ IF r.ok
                THEN /\ rate' = rate + r.val
                     /\ out' = out \o <<Prompt, Hint>>
                ELSE /\ rate' = rate
                     /\ out' = out \o <<Prompt, Hint, Retry(line)>>

\* GetRate lines 66-81, one turn of the loop.  scanner.Scan() returns a line
\* it holds, or first reads on from m.r: one line at least, and as many more
\* as the reader hands over.  When m.r is exhausted Scan fails and Text() is
\* the empty line.
GetRate_Scan ==
    /\ pc = "scan"
    /\ \/ /\ scanPos < off
          /\ UNCHANGED <<off, eofReads>>
          /\ scanPos' = scanPos + 1
          /\ GetRate_Line(data[scanPos + 1])
       \/ /\ scanPos = off
          /\ off < Len(data)
          /\ \E k \in 1..(Len(data) - off) : off' = off + k
          /\ UNCHANGED eofReads
          /\ scanPos' = scanPos + 1
          /\ GetRate_Line(data[scanPos + 1])
       \/ /\ scanPos = off
          /\ off = Len(data)
          /\ eofReads < MaxEOF
          /\ eofReads' = eofReads + 1
          /\ UNCHANGED <<off, scanPos>>
          /\ GetRate_Line(<<>>)
    /\ UNCHANGED <<Finished, data, tok, timer2Vars, uisVars, ftsVars,
                   tickerVars, sent, clock, exitCode>>


\* Timer starting both strategies
TimerBoth ==
    /\ tickerOn' = TRUE
    /\ stopped' = FALSE
    /\ nextTick' = clock + f.Ticks
    /\ tickC' = <<>>
    /\ t2pc' = "start"
    /\ uisPc' = "read"
    /\ ftsPc' = "start"

\* ------------------------------------------------------------ Timer
\* func (m *Meeting) Timer(), lines 134-141
Timer ==
    /\ tickerOn' = TRUE
    /\ stopped' = FALSE
    /\ nextTick' = clock + f.Ticks
    /\ tickC' = <<>>
    /\ t2pc' = "start"
    /\ IF f.MeetingDuration = 0
       THEN uisPc' = "read" /\ UNCHANGED ftsPc
       ELSE ftsPc' = "start" /\ UNCHANGED uisPc

\* ----------------------------------------------------------- RunCLI
\* lines 157-159: the interactive branch up to the polling loop
RunCLI_Interactive ==
    /\ pc = "mode"
    /\ f.MeetingDuration = 0
    /\ out' = Append(out, Banner)
    /\ Timer
    /\ pc' = "poll"
    /\ UNCHANGED <<f, Finished, readerVars, rateVars, now, t, userInput,
                   wakeAt, sent, clock, exitCode>>


\* RunCLI_Poll leaving the loop without testing m.Finished
RunCLI_PollNoTest ==
    /\ pc = "poll"
    /\ pc' = "newline"
    /\ UNCHANGED <<f, Finished, readerVars, out, rateVars, timer2Vars,
                   uisVars, ftsVars, tickerVars, sent, clock, exitCode>>

\* lines 160-164: one turn of the polling loop.  The read of m.Finished is
\* not synchronised with the strategy's write: it may see the write or miss
\* it.
RunCLI_Poll ==
    /\ pc = "poll"
    /\ \E seen \in (IF Finished THEN {TRUE, FALSE} ELSE {FALSE}) :
          pc' = IF seen THEN "newline" ELSE "poll"
    /\ UNCHANGED <<f, Finished, readerVars, out, rateVars, timer2Vars,
                   uisVars, ftsVars, tickerVars, sent, clock, exitCode>>


\* RunCLI_Newline clearing m.Finished once it has been seen
RunCLI_NewlineReset ==
    /\ pc = "newline"
    /\ out' = Append(out, Newline)
    /\ pc' = "exit"
    /\ Finished' = FALSE
    /\ UNCHANGED <<f, readerVars, rateVars, timer2Vars, uisVars,
                   ftsVars, tickerVars, sent, clock, exitCode>>

\* line 165
RunCLI_Newline ==
    /\ pc = "newline"
    /\ out' = Append(out, Newline)
    /\ pc' = "exit"
    /\ UNCHANGED <<f, Finished, readerVars, rateVars, timer2Vars, uisVars,
                   ftsVars, tickerVars, sent, clock, exitCode>>

\* line 166
RunCLI_Exit ==
    /\ pc = "exit"
    /\ exitCode' = 0
    /\ pc' = "exited"
    /\ UNCHANGED <<f, Finished, readerVars, out, rateVars, timer2Vars,
                   uisVars, ftsVars, tickerVars, sent, clock>>


\* RunCLI_Ticking with the comparison turned round: ticks < 1s
RunCLI_TickingBelow ==
    /\ pc = "mode"
    /\ f.MeetingDuration # 0
    /\ f.Ticks < Second
    /\ Timer
    /\ pc' = "ffexit"
    /\ UNCHANGED <<f, Finished, readerVars, out, rateVars, now, t, userInput,
                   wakeAt, sent, clock, exitCode>>

\* lines 168-169: the fixed-duration branch with ticks > 1s starts a session
RunCLI_Ticking ==
    /\ pc = "mode"
    /\ f.MeetingDuration # 0
    /\ f.Ticks > Second
    /\ Timer
    /\ pc' = "ffexit"
    /\ UNCHANGED <<f, Finished, readerVars, out, rateVars, now, t, userInput,
                   wakeAt, sent, clock, exitCode>>


\* RunCLI_ExitNoWait waiting for m.Finished as the interactive branch does
RunCLI_ExitWhenFinished ==
    /\ pc = "ffexit"
    /\ Finished
    /\ exitCode' = 0
    /\ pc' = "exited"
    /\ UNCHANGED <<f, Finished, readerVars, out, rateVars, timer2Vars,
                   uisVars, ftsVars, tickerVars, sent, clock>>

\* line 170
RunCLI_ExitNoWait ==
    /\ pc = "ffexit"
    /\ exitCode' = 0
    /\ pc' = "exited"
    /\ UNCHANGED <<f, Finished, readerVars, out, rateVars, timer2Vars,
                   uisVars, ftsVars, tickerVars, sent, clock>>


\* RunCLI_OneShot with the threshold at >= 1s: exactly one second ticks
RunCLI_OneShotBelow ==
    /\ pc = "mode"
    /\ f.MeetingDuration # 0
    /\ ~(f.Ticks >= Second)
    /\ LET cost == Cost(f.HourlyRate, f.MeetingDuration)
       IN  out' = out \o <<DisplayCost(cost), Newline>>
    /\ pc' = "returned"
    /\ UNCHANGED <<f, Finished, readerVars, rateVars, timer2Vars, uisVars,
                   ftsVars, tickerVars, sent, clock, exitCode>>

\* RunCLI_OneShot taken whatever the tick interval is
RunCLI_OneShotAlways ==
    /\ pc = "mode"
    /\ f.MeetingDuration # 0
    /\ LET cost == Cost(f.HourlyRate, f.MeetingDuration)
       IN  out' = out \o <<DisplayCost(cost), Newline>>
    /\ pc' = "returned"
    /\ UNCHANGED <<f, Finished, readerVars, rateVars, timer2Vars, uisVars,
                   ftsVars, tickerVars, sent, clock, exitCode>>

\* lines 171-175: the projection of the cost of the whole meeting
RunCLI_OneShot ==
    /\ pc = "mode"
    /\ f.MeetingDuration # 0
    /\ ~(f.Ticks > Second)
    /\ LET cost == Cost(f.HourlyRate, f.MeetingDuration)
       IN  out' = out \o <<DisplayCost(cost), Newline>>
    /\ pc' = "returned"
    /\ UNCHANGED <<f, Finished, readerVars, rateVars, timer2Vars, uisVars,
                   ftsVars, tickerVars, sent, clock, exitCode>>

\* ------------------------------------------------------------ Timer2
\* line 99
Timer2_Start ==
    /\ Alive
    /\ t2pc = "start"
    /\ now' = clock
    /\ t2pc' = "select"
    /\ UNCHANGED <<f, Finished, readerVars, out, pc, rateVars, t, uisVars,
                   ftsVars, tickerVars, sent, clock, exitCode>>


\* Timer2_Done with the return lost: the loop goes on
Timer2_DoneNoReturn ==
    t2pc' = "select"

\* lines 102-103: what Timer2 does on receiving from done
Timer2_Done ==
    t2pc' = "done"


\* Timer2_Tick taking the tick received as the new start
Timer2_TickRestart ==
    /\ Alive
    /\ t2pc = "select"
    /\ tickC # <<>>
    /\ t' = Head(tickC)
    /\ now' = Head(tickC) - 1
    /\ tickC' = <<>>
    /\ t2pc' = "tick"
    /\ UNCHANGED <<f, Finished, readerVars, out, pc, rateVars, uisVars,
                   ftsVars, tickerOn, stopped, nextTick, sent, clock, exitCode>>

\* lines 101 and 104: the select receives a tick from ticker.C
Timer2_Tick ==
    /\ Alive
    /\ t2pc = "select"
    /\ tickC # <<>>
    /\ t' = Head(tickC)
    /\ tickC' = <<>>
    /\ t2pc' = "tick"
    /\ UNCHANGED <<f, Finished, readerVars, out, pc, rateVars, now, uisVars,
                   ftsVars, tickerOn, stopped, nextTick, sent, clock, exitCode>>

\* lines 105-107
Timer2_Display ==
    /\ Alive
    /\ t2pc = "tick"
    /\ LET d           == t - now
           runningCost == Cost(f.HourlyRate, d)
       IN  out' = Append(out, DisplayCost(runningCost))
    /\ t2pc' = "select"
    /\ UNCHANGED <<f, Finished, readerVars, pc, rateVars, now, t, uisVars,
                   ftsVars, tickerVars, sent, clock, exitCode>>

\* ------------------------------------------------- the strategies' tail
\* `done <- true` (lines 120, 127): done is unbuffered, so the send completes
\* only with Timer2 receiving in its select
SendDone ==
    /\ t2pc = "select"
    /\ Timer2_Done
    /\ sent' = sent + 1
    /\ UNCHANGED <<now, t>>

\* ticker.Stop() (lines 121, 128): no tick is sent from now on; ticker.C
\* keeps what it holds
StopTicker ==
    /\ tickerOn' = FALSE
    /\ stopped' = TRUE
    /\ UNCHANGED <<nextTick, tickC>>


\* SetFinished leaving the flag as it is
SetFinishedLost ==
    UNCHANGED Finished

\* m.Finished = true (lines 122, 129)
SetFinished ==
    Finished' = TRUE


\* UserInputStrategy_Read ending the wait on any token read
UserInputStrategy_ReadAny ==
    /\ Alive
    /\ uisPc = "read"
    /\ LET p == TokenAt(data, off, tok)
       IN  IF p[1] >= Len(data)
           THEN /\ off' = p[1]
                /\ tok' = p[2]
                /\ UNCHANGED userInput
           ELSE /\ off' = AfterToken(data, p[1], p[2])[1]
                /\ tok' = AfterToken(data, p[1], p[2])[2]
                /\ userInput' = data[p[1] + 1][p[2] + 1]
    /\ uisPc' = IF userInput' # "" THEN "send" ELSE "read"
    /\ UNCHANGED <<f, Finished, data, out, pc, rateVars, timer2Vars, ftsVars,
                   tickerVars, sent, clock, exitCode>>

\* ------------------------------------------------ UserInputStrategy
\* lines 115-118: fmt.Fscan reads the next token into userInput (at the end of
\* the stream it fails and leaves userInput as it was), then the test
UserInputStrategy_Read ==
    /\ Alive
    /\ uisPc = "read"
    /\ LET p == TokenAt(data, off, tok)
       IN  IF p[1] >= Len(data)
           THEN /\ off' = p[1]
                /\ tok' = p[2]
                /\ UNCHANGED userInput
           ELSE /\ off' = AfterToken(data, p[1], p[2])[1]
                /\ tok' = AfterToken(data, p[1], p[2])[2]
                /\ userInput' = data[p[1] + 1][p[2] + 1]
    /\ uisPc' = IF userInput' \in Sentinel THEN "send" ELSE "read"
    /\ UNCHANGED <<f, Finished, data, out, pc, rateVars, timer2Vars, ftsVars,
                   tickerVars, sent, clock, exitCode>>

\* line 120
UserInputStrategy_Send ==
    /\ Alive
    /\ uisPc = "send"
    /\ SendDone
    /\ uisPc' = "stop"
    /\ UNCHANGED <<f, Finished, readerVars, out, pc, rateVars, userInput,
                   ftsVars, tickerVars, clock, exitCode>>


\* UserInputStrategy_Stop going back to signal once more
UserInputStrategy_StopResend ==
    /\ Alive
    /\ uisPc = "stop"
    /\ StopTicker
    /\ uisPc' = "send"
    /\ UNCHANGED <<f, Finished, readerVars, out, pc, rateVars, timer2Vars,
                   userInput, ftsVars, sent, clock, exitCode>>

\* line 121
UserInputStrategy_Stop ==
    /\ Alive
    /\ uisPc = "stop"
    /\ StopTicker
    /\ uisPc' = "finish"
    /\ UNCHANGED <<f, Finished, readerVars, out, pc, rateVars, timer2Vars,
                   userInput, ftsVars, sent, clock, exitCode>>


\* UserInputStrategy_Finish with m.Finished = true moved before the send
UserInputStrategy_FinishFirst ==
    /\ Alive
    /\ uisPc = "send"
    /\ ~Finished
    /\ Finished' = TRUE
    /\ UNCHANGED <<f, readerVars, out, pc, rateVars, timer2Vars, uisVars,
                   ftsVars, tickerVars, sent, clock, exitCode>>

\* line 122
UserInputStrategy_Finish ==
    /\ Alive
    /\ uisPc = "finish"
    /\ SetFinished
    /\ uisPc' = "done"
    /\ UNCHANGED <<f, readerVars, out, pc, rateVars, timer2Vars, userInput,
                   ftsVars, tickerVars, sent, clock, exitCode>>

\* ------------------------------------------------ FixedTimeStrategy
\* line 126, the call: time.Sleep(m.f.MeetingDuration) starts
FixedTimeStrategy_Sleep ==
    /\ Alive
    /\ ftsPc = "start"
    /\ wakeAt' = clock + f.MeetingDuration
    /\ ftsPc' = "sleep"
    /\ UNCHANGED <<f, Finished, readerVars, out, pc, rateVars, timer2Vars,
                   uisVars, tickerVars, sent, clock, exitCode>>


\* FixedTimeStrategy_Wake returning from time.Sleep at once
FixedTimeStrategy_WakeEarly ==
    /\ Alive
    /\ ftsPc = "sleep"
    /\ ftsPc' = "send"
    /\ UNCHANGED <<f, Finished, readerVars, out, pc, rateVars, timer2Vars,
                   uisVars, wakeAt, tickerVars, sent, clock, exitCode>>

\* line 126, the return: the duration has elapsed
FixedTimeStrategy_Wake ==
    /\ Alive
    /\ ftsPc = "sleep"
    /\ clock >= wakeAt
    /\ ftsPc' = "send"
    /\ UNCHANGED <<f, Finished, readerVars, out, pc, rateVars, timer2Vars,
                   uisVars, wakeAt, tickerVars, sent, clock, exitCode>>

\* line 127
FixedTimeStrategy_Send ==
    /\ Alive
    /\ ftsPc = "send"
    /\ SendDone
    /\ ftsPc' = "stop"
    /\ UNCHANGED <<f, Finished, readerVars, out, pc, rateVars, uisVars,
                   wakeAt, tickerVars, clock, exitCode>>

\* line 128
FixedTimeStrategy_Stop ==
    /\ Alive
    /\ ftsPc = "stop"
    /\ StopTicker
    /\ ftsPc' = "finish"
    /\ UNCHANGED <<f, Finished, readerVars, out, pc, rateVars, timer2Vars,
                   uisVars, wakeAt, sent, clock, exitCode>>

\* line 129
FixedTimeStrategy_Finish ==
    /\ Alive
    /\ ftsPc = "finish"
    /\ SetFinished
    /\ ftsPc' = "done"
    /\ UNCHANGED <<f, readerVars, out, pc, rateVars, timer2Vars, uisVars,
                   wakeAt, tickerVars, sent, clock, exitCode>>

\* ------------------------------------------------------ time.Ticker
\* The runtime's timer of time.NewTicker (line 134), at the time c: when the
\* ticker runs and is due it sends the time on ticker.C unless the channel
\* is full, and is due again one period later
Ticker_Fire(c) ==
    IF tickerOn /\ c >= nextTick
    THEN /\ tickC' = IF tickC = <<>> THEN <<c>> ELSE tickC
         /\ nextTick' = nextTick + f.Ticks * (1 + (c - nextTick) \div f.Ticks)
    ELSE UNCHANGED <<nextTick, tickC>>

\* Time passes by one quantum, and the ticker fires if it is due.  Time is
\* followed while the ticker runs: nothing reads the clock before
\* time.NewTicker or after ticker.Stop().
Advance ==
    /\ Alive
    /\ tickerOn
    /\ clock < MaxClock
    /\ clock' = clock + 1
    /\ Ticker_Fire(clock + 1)
    /\ UNCHANGED <<f, Finished, readerVars, out, pc, rateVars, timer2Vars,
                   uisVars, ftsVars, tickerOn, stopped, sent, exitCode>>

Next ==
    \/ RunCLI_Rate
    \/ GetRate_Scan
    \/ RunCLI_Interactive
    \/ RunCLI_Poll
    \/ RunCLI_Newline
    \/ RunCLI_Exit
    \/ RunCLI_Ticking
    \/ RunCLI_ExitNoWait
    \/ RunCLI_OneShot
    \/ Timer2_Start
    \/ Timer2_Tick
    \/ Timer2_Display
    \/ UserInputStrategy_Read
    \/ UserInputStrategy_Send
    \/ UserInputStrategy_Stop
    \/ UserInputStrategy_Finish
    \/ FixedTimeStrategy_Sleep
    \/ FixedTimeStrategy_Wake
    \/ FixedTimeStrategy_Send
    \/ FixedTimeStrategy_Stop
    \/ FixedTimeStrategy_Finish
    \/ Advance

Spec == Init /\ [][Next]_vars

\* The collection of the rate alone: RunCLI with no rate given, over longer
\* inputs, on the branch that starts no goroutine
InitRate ==
    \E d \in SeqsUpTo(RateLines, MaxRateLines) :
        NewMeeting([HourlyRate |-> 0, MeetingDuration |-> Hour,
                    Ticks |-> DefaultTicks], d)

NextRate ==
    \/ RunCLI_Rate
    \/ GetRate_Scan
    \/ RunCLI_OneShot

SpecRate == InitRate /\ [][NextRate]_vars

\* The interactive session alone, with its three goroutines scheduled
\* fairly: each of them takes a step it can take (weak fairness), and the
\* select of Timer2, which chooses among its ready cases at random, does not
\* pass over a waiting sender for ever (strong fairness of the send).
InitLive ==
    \E flags \in [HourlyRate : Rates, MeetingDuration : {0},
                  Ticks : {DefaultTicks, 2 * Second}],
       d \in SeqsUpTo(Lines, MaxInput) :
        NewMeeting(flags, d)

RunCLI_Next ==
    \/ RunCLI_Rate
    \/ GetRate_Scan
    \/ RunCLI_Interactive
    \/ RunCLI_Poll
    \/ RunCLI_Newline
    \/ RunCLI_Exit

Timer2_Next ==
    \/ Timer2_Start
    \/ Timer2_Tick
    \/ Timer2_Display

UserInputStrategy_Next ==
    \/ UserInputStrategy_Read
    \/ UserInputStrategy_Stop
    \/ UserInputStrategy_Finish

NextLive ==
    \/ RunCLI_Next
    \/ Timer2_Next
    \/ UserInputStrategy_Next
    \/ UserInputStrategy_Send
    \/ Advance

SpecLive ==
    /\ InitLive
    /\ [][NextLive]_vars
    /\ WF_vars(RunCLI_Next)
    /\ WF_vars(Timer2_Next)
    /\ WF_vars(UserInputStrategy_Next)
    /\ SF_vars(UserInputStrategy_Send)

\* The cost projection alone: RunCLI on the one-shot branch, over more rates
\* and durations, short ones included
CostRates     == {0, 1, 995, 10000, 15000}
CostDurations == (1..MaxCostDur) \cup {Hour \div 2, Hour}

InitCost ==
    \E flags \in [HourlyRate : CostRates, MeetingDuration : CostDurations,
                  Ticks : {DefaultTicks}],
       d \in SeqsUpTo(RateLines, 1) :
        NewMeeting(flags, d)

SpecCost == InitCost /\ [][NextRate]_vars

\* --------------------------------------------------------- properties
IsCost(item)  == item.kind = "cost"
CostItems(o)  == SelectSeq(o, IsCost)
CostLines(o)  == Len(CostItems(o))
Wrote(item)   == \E i \in DOMAIN out : out[i] = item
Interactive   == f.MeetingDuration = 0

\* C1: on the interactive path (MeetingDuration = 0) RunCLI leaves the polling
\* loop, writes the trailing newline and exits only once m.Finished is true,
\* and the exit code is 0.
C1_ExitAfterFinished ==
    Interactive =>
        /\ pc \in {"newline", "exit", "exited"} => Finished
        /\ Wrote(Newline) => Finished
        /\ pc = "exited" => Finished /\ exitCode = 0 /\ Wrote(Newline)
        /\ exitCode # None => pc = "exited"

C1_Witness ==
    Interactive /\ pc = "exited" /\ Finished /\ exitCode = 0

\* C2: in both strategies the send on done completes before ticker.Stop(),
\* and ticker.Stop() is called before m.Finished is set: a stopped ticker
\* implies a delivered signal, and Finished implies both.
C2_SignalStopFinished ==
    /\ stopped => sent > 0
    /\ Finished => stopped /\ sent > 0
    /\ uisPc \in {"finish", "done"} \/ ftsPc \in {"finish", "done"} => stopped
    /\ uisPc \in {"stop", "finish", "done"} \/ ftsPc \in {"stop", "finish", "done"}
          => sent > 0

C2_Witness ==
    Finished /\ stopped /\ sent > 0 /\ ftsPc = "done"

\* C3: once Timer2 has received the termination signal it has returned, and
\* no running-cost line is written from then on, not even for a tick that
\* ticker.C still holds.
C3_NoTickAfterSignal ==
    /\ [](sent > 0 => t2pc = "done")
    /\ [][sent > 0 => CostLines(out') = CostLines(out)]_vars

C3_Witness ==
    sent > 0 /\ t2pc = "done" /\ tickC # <<>> /\ CostLines(out) > 0

\* C4: Timer starts Timer2 together with exactly one strategy, the
\* interactive one when MeetingDuration = 0 and the fixed-duration one
\* otherwise; the two strategies never both run.
C4_OneStrategy ==
    /\ t2pc = "idle" <=> (uisPc = "idle" /\ ftsPc = "idle")
    /\ uisPc = "idle" \/ ftsPc = "idle"
    /\ uisPc # "idle" => Interactive
    /\ ftsPc # "idle" => ~Interactive
    /\ pc \in {"poll", "ffexit"} => t2pc # "idle"

C4_Witness ==
    t2pc # "idle" /\ ftsPc # "idle" /\ uisPc = "idle" /\ f.MeetingDuration = Hour


\* C5: the interactive strategy sends the signal only after reading a token
\* "q" or "Q".  A read of any other token leaves the strategy reading and
\* changes neither done, the ticker, the output nor m.Finished (nor does a
\* read that fails at the end of the input); the read of the first sentinel
\* ends the wait.
C5_NextToken ==
    LET p == TokenAt(data, off, tok)
    IN  IF p[1] < Len(data) THEN data[p[1] + 1][p[2] + 1] ELSE ""

C5_OnlySentinelEndsWait ==
    /\ [](uisPc = "read" =>
            sent = 0 /\ ~stopped /\ tickerOn /\ ~Finished
            /\ userInput \notin Sentinel)
    /\ [](uisPc \in {"send", "stop", "finish", "done"} => userInput \in Sentinel)
    /\ [](Interactive /\ sent > 0 => userInput \in Sentinel)
    /\ [][uisPc = "read" /\ <<off, tok, userInput>>' # <<off, tok, userInput>>
            => /\ userInput' = IF C5_NextToken # "" THEN C5_NextToken
                                                       ELSE userInput
               /\ C5_NextToken \notin Sentinel =>
                    /\ uisPc' = "read"
                    /\ UNCHANGED <<sent, stopped, tickerOn, out, Finished>>
               /\ C5_NextToken \in Sentinel => uisPc' = "send"]_vars

C5_Witness ==
    /\ data = << <<"100">>, <<"x", "q">> >>
    /\ f.HourlyRate # 0
    /\ off = 2
    /\ userInput = "q"
    /\ sent > 0

\* C6: with MeetingDuration # 0 and Ticks > 1s RunCLI starts Timer2 and the
\* fixed-duration strategy and then exits with code 0 without waiting: at
\* the exit statement os.Exit can always be taken, whatever m.Finished is.
C6_ExitWithoutWaiting ==
    (f.MeetingDuration # 0 /\ f.Ticks > Second) =>
        /\ pc \in {"rate", "scan", "mode", "ffexit", "exited"}
        /\ pc \in {"ffexit", "exited"} =>
              t2pc # "idle" /\ ftsPc # "idle" /\ uisPc = "idle"
        /\ pc = "ffexit" => ENABLED RunCLI_ExitNoWait
        /\ pc = "exited" <=> exitCode = 0
        /\ ~Wrote(Newline)

C6_Witness ==
    /\ f.MeetingDuration # 0
    /\ f.Ticks > Second
    /\ pc = "exited"
    /\ exitCode = 0
    /\ ~Finished
    /\ CostLines(out) = 0
    /\ t2pc = "start"
    /\ ftsPc = "start"

\* C7: with MeetingDuration # 0 and Ticks <= 1s (the default and exactly one
\* second included) RunCLI writes exactly one cost line, of
\* Cost(HourlyRate, MeetingDuration), starts no goroutine, leaves m.Finished
\* false and returns without calling os.Exit.
C7_OneShot ==
    (f.MeetingDuration # 0 /\ f.Ticks <= Second) =>
        /\ pc \in {"rate", "scan", "mode", "returned"}
        /\ t2pc = "idle" /\ uisPc = "idle" /\ ftsPc = "idle" /\ ~tickerOn
        /\ ~Finished
        /\ exitCode = None
        /\ pc = "mode" => ENABLED RunCLI_OneShot
        /\ pc # "returned" => CostLines(out) = 0
        /\ pc = "returned" =>
              /\ CostLines(out) = 1
              /\ CostItems(out)[1].cents
                    = Format2f(Cost(f.HourlyRate, f.MeetingDuration))
              /\ out[Len(out)] = Newline

C7_Witness ==
    /\ pc = "returned"
    /\ f.Ticks = Second
    /\ f.MeetingDuration = 2 * Second
    /\ f.HourlyRate = 10000
    /\ CostItems(out) = <<Item("cost", 6, <<>>)>>

\* The configurations of the end-to-end cases: rate 100 given (not
\* collected), duration 1h
Config(ticks) ==
    [HourlyRate |-> 10000, MeetingDuration |-> Hour, Ticks |-> ticks]
Configured(ticks) == f = Config(ticks) /\ ~Wrote(Intro)

Branched == pc \notin {"rate", "scan", "mode"}

\* C8, as stated: for {rate: 100, duration: 1h, ticks: 500ms} the one-shot
\* path is not taken and a ticking session is started.
C8_Original ==
    (Configured(Second \div 2) /\ Branched) =>
        pc # "returned" /\ t2pc # "idle"

\* C8, amended: for {rate: 100, duration: 1h, ticks: 500ms} the one-shot path
\* is taken: the only output is one display of $100.00 and a newline, no
\* ticking session is started and RunCLI returns.
C8_HalfSecondIsOneShot ==
    Configured(Second \div 2) =>
        /\ pc = "mode" => ENABLED RunCLI_OneShot /\ ~ENABLED RunCLI_Ticking
        /\ Branched =>
              /\ pc = "returned"
              /\ out = <<Item("cost", 10000, <<>>), Newline>>
              /\ t2pc = "idle" /\ uisPc = "idle" /\ ftsPc = "idle"
              /\ ~tickerOn

C8_Witness ==
    Configured(Second \div 2) /\ pc = "returned" /\ CostLines(out) = 1

\* C9, as stated: for {rate: 100, duration: 1h, ticks: 2s} the run produces a
\* single display of $100.00 and starts no ticking session.
C9_Original ==
    (Configured(2 * Second) /\ Branched) =>
        /\ CostItems(out) = <<Item("cost", 10000, <<>>)>>
        /\ t2pc = "idle"

\* C9, amended: for {rate: 100, duration: 1h, ticks: 2s} the one-shot path is
\* not taken: RunCLI starts a ticking session with the fixed-duration
\* strategy and exits with code 0 without waiting for it, having displayed
\* nothing itself.
C9_TwoSecondsTicks ==
    Configured(2 * Second) =>
        /\ pc = "mode" => ENABLED RunCLI_Ticking /\ ~ENABLED RunCLI_OneShot
        /\ pc # "returned"
        /\ ~Wrote(Newline)
        /\ Branched =>
              /\ pc \in {"ffexit", "exited"}
              /\ t2pc # "idle" /\ ftsPc # "idle" /\ uisPc = "idle"
              /\ pc = "exited" <=> exitCode = 0
        /\ pc = "ffexit" /\ t2pc = "start" => out = <<>>

C9_Witness ==
    Configured(2 * Second) /\ pc = "exited" /\ exitCode = 0 /\ out = <<>>

\* C10: when GetRate returns, the input holds a sentinel line ("q" or "Q"),
\* the sum returned is that of the parseable lines before the first one, and
\* the retry messages written are those of the unparseable lines before it,
\* one each and in order; while it collects, the same holds of the lines
\* scanned so far.  Lines after the first sentinel count for nothing.
IsSentinelLine(line) == line = <<"q">> \/ line = <<"Q">>

RECURSIVE SumOfRates(_)
SumOfRates(ls) ==
    IF ls = <<>> THEN 0
    ELSE (IF ParseFloat(Head(ls)).ok THEN ParseFloat(Head(ls)).val ELSE 0)
         + SumOfRates(Tail(ls))

RECURSIVE RetriesOf(_)
RetriesOf(ls) ==
    IF ls = <<>> THEN <<>>
    ELSE (IF ParseFloat(Head(ls)).ok THEN <<>> ELSE <<Retry(Head(ls))>>)
         \o RetriesOf(Tail(ls))

IsRetry(item) == item.kind = "retry"
FirstSentinel ==
    IF \E i \in DOMAIN data : IsSentinelLine(data[i])
    THEN CHOOSE i \in DOMAIN data :
            IsSentinelLine(data[i]) /\ \A j \in 1..(i - 1) : ~IsSentinelLine(data[j])
    ELSE 0
EofRetries == [i \in 1..eofReads |-> Retry(<<>>)]

C10_GetRateSum ==
    /\ pc = "scan" =>
          /\ \A i \in 1..scanPos : ~IsSentinelLine(data[i])
          /\ rate = SumOfRates(SubSeq(data, 1, scanPos))
          /\ SelectSeq(out, IsRetry)
                = RetriesOf(SubSeq(data, 1, scanPos)) \o EofRetries
    /\ (Wrote(Intro) /\ pc # "scan") =>
          /\ FirstSentinel > 0
          /\ scanPos = FirstSentinel
          /\ eofReads = 0
          /\ f.HourlyRate = SumOfRates(SubSeq(data, 1, FirstSentinel - 1))
          /\ SelectSeq(out, IsRetry)
                = RetriesOf(SubSeq(data, 1, FirstSentinel - 1))

C10_Witness ==
    /\ data = << <<"100">>, <<"foo">>, <<"50">>, <<"q">> >>
    /\ pc = "returned"
    /\ f.HourlyRate = 15000
    /\ SelectSeq(out, IsRetry) = <<Retry(<<"foo">>)>>

\* C11: RunCLI calls GetRate exactly when the rate given is 0, and before it
\* chooses a branch.  With a rate given nothing of GetRate is written, no
\* line is taken from the input and the rate stays; with none, the sum
\* collected replaces it (the only change of the flags ever), and every cost
\* displayed from then on, one-shot or per tick, is computed from it.
C11_RateCollectedIffZero ==
    /\ [](pc = "rate" => out = <<>> /\ off = 0)
    /\ [](pc \in {"rate", "scan"} =>
            /\ t2pc = "idle" /\ uisPc = "idle" /\ ftsPc = "idle"
            /\ CostLines(out) = 0)
    /\ [](~Wrote(Intro) =>
            /\ ~Wrote(Prompt) /\ ~Wrote(Hint)
            /\ SelectSeq(out, IsRetry) = <<>>
            /\ scanPos = 0
            /\ pc # "scan"
            /\ pc # "rate" => f.HourlyRate # 0
            /\ pc = "mode" => off = 0 /\ tok = 0)
    /\ []((Wrote(Intro) /\ pc # "scan") =>
            f.HourlyRate = SumOfRates(SubSeq(data, 1, FirstSentinel - 1)))
    /\ [][pc = "rate" =>
            IF f.HourlyRate = 0
            THEN pc' = "scan" /\ out' = <<Intro>> /\ f' = f
            ELSE pc' = "mode" /\ UNCHANGED <<f, out, off, tok>>]_vars
    /\ [][f' # f =>
            /\ pc = "scan" /\ pc' = "mode"
            /\ f.HourlyRate = 0
            /\ f' = [f EXCEPT !.HourlyRate = rate]]_vars
    /\ [][CostLines(out') # CostLines(out) =>
            \/ out' = out \o <<DisplayCost(Cost(f'.HourlyRate, f'.MeetingDuration)),
                               Newline>>
            \/ out' = Append(out, DisplayCost(Cost(f'.HourlyRate, t - now)))]_vars

C11_Witness ==
    /\ Wrote(Intro)
    /\ data = << <<"100">>, <<"q">> >>
    /\ f.HourlyRate = 10000
    /\ Interactive
    /\ CostLines(out) > 0
    /\ CostItems(out)[1].cents > 0

\* C12: the termination signal is one-shot: counting the sends on done that
\* have completed and the one a strategy is blocked in, there is never more
\* than one, and a strategy past its send never sends again.
C12_Sends ==
    sent + (IF uisPc = "send" THEN 1 ELSE 0) + (IF ftsPc = "send" THEN 1 ELSE 0)

C12_OneShotSignal ==
    /\ sent <= 1
    /\ C12_Sends <= 1
    /\ sent = 1 <=> (uisPc \in {"stop", "finish", "done"}
                     \/ ftsPc \in {"stop", "finish", "done"})

C12_Witness ==
    /\ data = << <<"q">>, <<"Q">> >>
    /\ uisPc = "done"
    /\ sent = 1
    /\ off = 1

\* C13: the fixed-duration strategy sleeps from its start for at least
\* MeetingDuration: before that much time has passed it has not sent the
\* signal, stopped the ticker or set m.Finished, and ticks of that interval
\* are displayed.
C13_SleepsFullDuration ==
    /\ ftsPc \in {"start", "sleep"} =>
          sent = 0 /\ ~stopped /\ tickerOn /\ ~Finished
    /\ ftsPc \notin {"idle", "start"} =>
          /\ wakeAt - f.MeetingDuration >= 0
          /\ wakeAt - f.MeetingDuration <= clock
    /\ ftsPc \in {"send", "stop", "finish", "done"} =>
          clock - (wakeAt - f.MeetingDuration) >= f.MeetingDuration
    /\ (~Interactive /\ (sent > 0 \/ stopped \/ Finished)) =>
          /\ ftsPc \in {"stop", "finish", "done"}
          /\ clock >= f.MeetingDuration

C13_Witness ==
    /\ ftsPc = "sleep"
    /\ clock < wakeAt
    /\ CostLines(out) > 0

\* C14: Cost is 0 for every duration shorter than one second, whatever the
\* rate (as the comment on Cost says).
C14_SubSecondCostsNothing ==
    (pc = "returned" /\ f.MeetingDuration < Second) =>
        /\ Cost(f.HourlyRate, f.MeetingDuration).num = 0
        /\ CostItems(out)[1].cents = 0

C16_RunningCost ==
    /\ [][t2pc = "start" /\ t2pc' # "start" => now' = clock]_vars
    /\ [][t2pc \notin {"idle", "start"} => now' = now]_vars
    /\ [][(t2pc # "idle" /\ CostLines(out') # CostLines(out)) =>
            /\ t2pc = "tick"
            /\ out' = Append(out, DisplayCost(Cost(f.HourlyRate, t - now)))]_vars
    /\ [](t2pc = "tick" => t <= clock)
    /\ []((t2pc # "idle" /\ f.HourlyRate >= 0) =>
            \A i, j \in 1..CostLines(out) :
                i < j => CostItems(out)[i].cents <= CostItems(out)[j].cents)

C16_Witness ==
    /\ t2pc # "idle"
    /\ CostLines(out) >= 2
    /\ CostItems(out)[1].cents < CostItems(out)[2].cents

C18_NeverReturnsAtEOF ==
    /\ []((Wrote(Intro) /\ pc # "scan") =>
            scanPos > 0 /\ IsSentinelLine(data[scanPos]) /\ eofReads = 0)
    /\ [][(pc = "scan" /\ pc' # "scan") =>
            scanPos' = scanPos + 1 /\ IsSentinelLine(data[scanPos'])]_vars
    /\ [][eofReads' # eofReads =>
            /\ eofReads' = eofReads + 1
            /\ scanPos = Len(data)
            /\ pc = "scan" /\ pc' = "scan"
            /\ rate' = rate /\ f' = f
            /\ UNCHANGED <<scanPos, off>>
            /\ out' = out \o <<Prompt, Hint, Retry(<<>>)>>]_vars
    /\ []((pc = "scan" /\ scanPos = Len(data) /\ eofReads < MaxEOF) =>
            ENABLED (GetRate_Scan /\ eofReads' = eofReads + 1))

C18_Witness ==
    /\ data = << <<"100">>, <<"foo">> >>
    /\ pc = "scan"
    /\ eofReads >= 2
    /\ rate = 10000

\* C19: m.Finished is false from the construction of the Meeting until a
\* session runs, it only ever changes from false to true, and it changes
\* only in the last step of the strategy that runs: neither RunCLI nor
\* Timer2 writes it.
C19_FinishedMonotonic ==
    /\ [](t2pc = "idle" => ~Finished)
    /\ [][Finished => Finished']_vars
    /\ [][Finished' # Finished =>
            /\ ~Finished /\ Finished'
            /\ UNCHANGED <<pc, timer2Vars, out, exitCode>>
            /\ \/ /\ Interactive
                  /\ uisPc = "finish" /\ uisPc' = "done"
                  /\ ftsPc = "idle"
               \/ /\ ~Interactive
                  /\ ftsPc = "finish" /\ ftsPc' = "done"
                  /\ uisPc = "idle"]_vars

C19_Witness ==
    /\ Finished
    /\ pc = "exited"
    /\ uisPc = "done"
    /\ t2pc = "done"

====
